---- MODULE Spec2Model ----
(***************************************************************************)
(* Model of src/frontend/src-tauri/src/lib.rs: the two tauri commands      *)
(* set_screen_capture_protection and set_taskbar_visibility, their three   *)
(* compile-time platform variants (windows, macos, neither), and the       *)
(* native window state they act on.  A command runs as a sequence of       *)
(* steps, one per native call of the source, so that the order of the      *)
(* native calls and the window state between them are observable.          *)
(***************************************************************************)
EXTENDS Integers, Sequences, FiniteSets, TLC

VARIABLES
    platform,          \* the cfg(target_os) the binary was built for
    status,            \* per window: "live", "stale" (native window gone), "closed"
    cloakSupported,    \* whether this OS version accepts DWMWA_CLOAK
    excludedFromPeek,  \* per window: DWMWA_EXCLUDED_FROM_PEEK attribute (0/1)
    cloak,             \* per window: DWMWA_CLOAK attribute (0/1)
    exStyle,           \* per window: GWL_EXSTYLE extended style mask
    sharingType,       \* per window: NSWindow sharingType
    activationPolicy,  \* the NSApplication activation policy (process-global)
    pc,                \* position of the command being executed
    cur,               \* the command being executed: [cmd, window, arg]
    ex_style,          \* the local `ex_style` of hide_from_taskbar / show_in_taskbar
    calls,             \* the native calls made so far by the running command
    result,            \* the Result<(), String> the command returned
    pre,               \* window state when the running command was invoked
    last,              \* the previously completed command
    repeat,            \* the running command equals the previously completed one
    lastVisible        \* macos: `visible` of the most recent completed
                       \* set_taskbar_visibility ("none" before the first)

vars == <<platform, status, cloakSupported, excludedFromPeek, cloak, exStyle,
          sharingType, activationPolicy, pc, cur, ex_style, calls, result, pre,
          last, repeat, lastVisible>>

winVars == <<excludedFromPeek, cloak, exStyle, sharingType, activationPolicy>>
envVars == <<platform, status, cloakSupported>>
histVars == <<last, lastVisible>>

(***************************************************************************)
(* Bounds and program constants                                            *)
(***************************************************************************)
\* Width of the modelled style words (GWL_EXSTYLE uses the low 32 bits of an isize).
MaskBits == 20

WS_EX_TOOLWINDOW == 128
WS_EX_APPWINDOW == 262144
\* Extended style bits the program never names (WS_EX_TOPMOST, WS_EX_LAYERED).
OtherStyleBits == {8, 524288}

NSWindowSharingNone == 0
NSWindowSharingReadOnly == 1
NSWindowSharingReadWrite == 2

NSApplicationActivationPolicyRegular == 0
NSApplicationActivationPolicyAccessory == 1

Platforms == {"windows", "macos", "other"}
Windows == {"main", "overlay"}
Commands == {"set_screen_capture_protection", "set_taskbar_visibility"}

\* Texts of the OS errors DwmSetWindowAttribute can report.
OsErrors == {<<"Invalid window handle.", " (0x80070578)">>,
             <<"Access is denied.", " (0x80070005)">>}
\* Text of the tauri error of window.hwnd() / window.ns_window().
HandleError == <<"failed to receive message from webview">>

NoCall == [cmd |-> "none", window |-> "none", arg |-> FALSE]
NoResult == [ok |-> FALSE, err |-> <<"pending">>]
NoSnap == [taken |-> FALSE]

(***************************************************************************)
(* Pure helpers                                                            *)
(***************************************************************************)
RECURSIVE BitAndN(_, _, _)
BitAndN(a, b, n) ==
    IF n = 0 THEN 0
    ELSE 2 * BitAndN(a \div 2, b \div 2, n - 1)
         + (IF a % 2 = 1 /\ b % 2 = 1 THEN 1 ELSE 0)

RECURSIVE BitOrN(_, _, _)
BitOrN(a, b, n) ==
    IF n = 0 THEN 0
    ELSE 2 * BitOrN(a \div 2, b \div 2, n - 1)
         + (IF a % 2 = 1 \/ b % 2 = 1 THEN 1 ELSE 0)

RECURSIVE Pow2(_)
Pow2(n) == IF n = 0 THEN 1 ELSE 2 * Pow2(n - 1)

BitAnd(a, b) == BitAndN(a, b, MaskBits)
BitOr(a, b) == BitOrN(a, b, MaskBits)
BitNot(a) == Pow2(MaskBits) - 1 - a
HasBit(m, b) == BitAnd(m, b) = b

RECURSIVE SumSet(_)
SumSet(S) == IF S = {} THEN 0
             ELSE LET x == CHOOSE y \in S : TRUE IN x + SumSet(S \ {x})

\* Every mask built from the two taskbar bits and the other style bits.
OtherMask == SumSet(OtherStyleBits)
\* The masks a window starts with: every combination of the two taskbar bits,
\* with none or all of the other style bits.
StyleMasks == { SumSet(S) + o : S \in SUBSET {WS_EX_TOOLWINDOW, WS_EX_APPWINDOW},
                                o \in {0, OtherMask} }

\* format!("<prefix>{}", e)
Format(prefix, e) == <<prefix>> \o e
\* s contains x as a contiguous piece
Contains(s, x) ==
    \E i \in 1..(Len(s) - Len(x) + 1) : SubSeq(s, i, i + Len(x) - 1) = x

Ok == [ok |-> TRUE, err |-> <<>>]
Err(msg) == [ok |-> FALSE, err |-> msg]

Call(api, w, attr, value, outcome) ==
    [api |-> api, window |-> w, attr |-> attr, value |-> value, outcome |-> outcome]

Snapshot == [taken |-> TRUE, excludedFromPeek |-> excludedFromPeek, cloak |-> cloak,
             exStyle |-> exStyle, sharingType |-> sharingType,
             activationPolicy |-> activationPolicy]

(***************************************************************************)
(* Initial state                                                           *)
(***************************************************************************)
Init ==
    /\ platform \in Platforms
    /\ status = [w \in Windows |-> "live"]
    /\ cloakSupported \in BOOLEAN
    /\ excludedFromPeek = [w \in Windows |-> 0]
    /\ cloak = [w \in Windows |-> 0]
    /\ exStyle \in [Windows -> IF platform = "windows" THEN StyleMasks ELSE {0}]
    /\ sharingType \in [Windows -> IF platform = "macos"
                                    THEN {NSWindowSharingNone, NSWindowSharingReadOnly,
                                          NSWindowSharingReadWrite}
                                    ELSE {NSWindowSharingReadOnly}]
    /\ activationPolicy = NSApplicationActivationPolicyRegular
    /\ pc = "idle"
    /\ cur = NoCall
    /\ ex_style = 0
    /\ calls = <<>>
    /\ result = NoResult
    /\ pre = NoSnap
    /\ last = NoCall
    /\ repeat = FALSE
    /\ lastVisible = "none"

(***************************************************************************)
(* The dispatch layer invokes a command (tauri::generate_handler!)         *)
(***************************************************************************)
Invoke(cmd, w, arg) ==
    /\ pc = "idle"
    /\ cur' = [cmd |-> cmd, window |-> w, arg |-> arg]
    /\ repeat' = (last = cur')
    /\ pre' = Snapshot
    /\ calls' = <<>>
    /\ result' = NoResult
    /\ ex_style' = 0
    /\ pc' = "dispatch"
    /\ UNCHANGED <<winVars, envVars, histVars>>

Return ==
    /\ pc = "done"
    /\ pc' = "idle"
    /\ last' = cur
    /\ lastVisible' = IF platform = "macos" /\ cur.cmd = "set_taskbar_visibility"
                      THEN (IF cur.arg THEN "shown" ELSE "hidden") ELSE lastVisible
    /\ cur' = NoCall
    /\ repeat' = FALSE
    /\ pre' = NoSnap
    /\ calls' = <<>>
    /\ result' = NoResult
    /\ ex_style' = 0
    /\ UNCHANGED <<winVars, envVars>>

\* A step of the running command that returns `r` to the caller.
Finish(r) ==
    /\ result' = r
    /\ pc' = "done"

(***************************************************************************)
(* Native facilities                                                       *)
(***************************************************************************)
\* window.hwnd() / window.ns_window(): fails once tauri has dropped the window.
ResolveHandle(api, okPc) ==
    LET w == cur.window IN
    IF status[w] = "closed"
    THEN /\ calls' = Append(calls, Call(api, w, "", 0, HandleError))
         /\ Finish(Err(HandleError))
    ELSE /\ calls' = Append(calls, Call(api, w, "", 0, <<"ok">>))
         /\ pc' = okPc
         /\ UNCHANGED result

\* DwmSetWindowAttribute succeeds on this window for this attribute.
DwmAccepts(w, attr) ==
    /\ status[w] = "live"
    /\ attr = "DWMWA_CLOAK" => cloakSupported

(***************************************************************************)
(* windows_impl                                                            *)
(***************************************************************************)
\* Variant of SetExcludedFromPeek: map_err drops the OS error text.
SetExcludedFromPeek_drops_text(excluded, prefix, nextPc) ==
    LET w == cur.window IN
    \/ /\ DwmAccepts(w, "DWMWA_EXCLUDED_FROM_PEEK")
       /\ excludedFromPeek' = [excludedFromPeek EXCEPT ![w] = excluded]
       /\ calls' = Append(calls, Call("DwmSetWindowAttribute", w,
                                      "DWMWA_EXCLUDED_FROM_PEEK", excluded, <<"ok">>))
       /\ pc' = nextPc
       /\ UNCHANGED result
    \/ /\ ~DwmAccepts(w, "DWMWA_EXCLUDED_FROM_PEEK")
       /\ \E e \in OsErrors :
            /\ calls' = Append(calls, Call("DwmSetWindowAttribute", w,
                                           "DWMWA_EXCLUDED_FROM_PEEK", excluded, e))
            /\ Finish(Err(<<prefix>>))
       /\ UNCHANGED excludedFromPeek

\* The load-bearing DwmSetWindowAttribute(hwnd, DWMWA_EXCLUDED_FROM_PEEK, &excluded)
\* followed by map_err(format!(..))? .
SetExcludedFromPeek(excluded, prefix, nextPc) ==
    LET w == cur.window IN
    \/ /\ DwmAccepts(w, "DWMWA_EXCLUDED_FROM_PEEK")
       /\ excludedFromPeek' = [excludedFromPeek EXCEPT ![w] = excluded]
       /\ calls' = Append(calls, Call("DwmSetWindowAttribute", w,
                                      "DWMWA_EXCLUDED_FROM_PEEK", excluded, <<"ok">>))
       /\ pc' = nextPc
       /\ UNCHANGED result
    \/ /\ ~DwmAccepts(w, "DWMWA_EXCLUDED_FROM_PEEK")
       /\ \E e \in OsErrors :
            /\ calls' = Append(calls, Call("DwmSetWindowAttribute", w,
                                           "DWMWA_EXCLUDED_FROM_PEEK", excluded, e))
            /\ Finish(Err(Format(prefix, e)))
       /\ UNCHANGED excludedFromPeek

\* Variant of SetCloak: the cloak call's failure is propagated with `?`.
SetCloak_propagates(value) ==
    LET w == cur.window IN
    \/ /\ DwmAccepts(w, "DWMWA_CLOAK")
       /\ cloak' = [cloak EXCEPT ![w] = value]
       /\ calls' = Append(calls, Call("DwmSetWindowAttribute", w, "DWMWA_CLOAK",
                                      value, <<"ok">>))
       /\ Finish(Ok)
    \/ /\ ~DwmAccepts(w, "DWMWA_CLOAK")
       /\ \E e \in OsErrors :
            /\ calls' = Append(calls, Call("DwmSetWindowAttribute", w, "DWMWA_CLOAK",
                                           value, e))
            /\ Finish(Err(Format("Failed to cloak: ", e)))
       /\ UNCHANGED cloak

\* Variant of SetCloak: the attribute is flipped instead of set.
SetCloak_toggles(value) ==
    LET w == cur.window IN
    /\ \/ /\ DwmAccepts(w, "DWMWA_CLOAK")
          /\ cloak' = [cloak EXCEPT ![w] = 1 - cloak[w]]
          /\ calls' = Append(calls, Call("DwmSetWindowAttribute", w, "DWMWA_CLOAK",
                                         1 - cloak[w], <<"ok">>))
       \/ /\ ~DwmAccepts(w, "DWMWA_CLOAK")
          /\ \E e \in OsErrors :
               calls' = Append(calls, Call("DwmSetWindowAttribute", w, "DWMWA_CLOAK",
                                           value, e))
          /\ UNCHANGED cloak
    /\ Finish(Ok)

\* The best-effort DwmSetWindowAttribute(hwnd, DWMWA_CLOAK, &cloak).ok(); Ok(())
SetCloak(value) ==
    LET w == cur.window IN
    /\ \/ /\ DwmAccepts(w, "DWMWA_CLOAK")
          /\ cloak' = [cloak EXCEPT ![w] = value]
          /\ calls' = Append(calls, Call("DwmSetWindowAttribute", w, "DWMWA_CLOAK",
                                         value, <<"ok">>))
       \/ /\ ~DwmAccepts(w, "DWMWA_CLOAK")
          /\ \E e \in OsErrors :
               calls' = Append(calls, Call("DwmSetWindowAttribute", w, "DWMWA_CLOAK",
                                           value, e))
          /\ UNCHANGED cloak
    /\ Finish(Ok)

hide_from_capture_excluded ==
    /\ pc = "hide_from_capture"
    /\ SetExcludedFromPeek(1, "Failed to exclude from capture: ", "hide_from_capture_cloak")
    /\ UNCHANGED <<cloak, exStyle, sharingType, activationPolicy, envVars, histVars,
                   cur, ex_style, pre, repeat>>

hide_from_capture_cloak ==
    /\ pc = "hide_from_capture_cloak"
    /\ SetCloak(1)
    /\ UNCHANGED <<excludedFromPeek, exStyle, sharingType, activationPolicy, envVars,
                   histVars, cur, ex_style, pre, repeat>>

show_in_capture_excluded ==
    /\ pc = "show_in_capture"
    /\ SetExcludedFromPeek(0, "Failed to include in capture: ", "show_in_capture_cloak")
    /\ UNCHANGED <<cloak, exStyle, sharingType, activationPolicy, envVars, histVars,
                   cur, ex_style, pre, repeat>>

show_in_capture_cloak ==
    /\ pc = "show_in_capture_cloak"
    /\ SetCloak(0)
    /\ UNCHANGED <<excludedFromPeek, exStyle, sharingType, activationPolicy, envVars,
                   histVars, cur, ex_style, pre, repeat>>

\* let mut ex_style = GetWindowLongPtrW(hwnd, GWL_EXSTYLE);  (0 when the call fails)
GetWindowLongPtrW(nextPc) ==
    LET w == cur.window
        ok == status[w] = "live"
    IN  /\ ex_style' = IF ok THEN exStyle[w] ELSE 0
        /\ calls' = Append(calls, Call("GetWindowLongPtrW", w, "GWL_EXSTYLE", ex_style',
                                       IF ok THEN <<"ok">> ELSE <<"failed">>))
        /\ pc' = nextPc
        /\ UNCHANGED <<winVars, envVars, histVars, cur, result, pre, repeat>>

\* Variant of SetWindowLongPtrW: a failed write-back is reported to the caller.
SetWindowLongPtrW_checked ==
    LET w == cur.window
        ok == status[w] = "live"
    IN  /\ exStyle' = IF ok THEN [exStyle EXCEPT ![w] = ex_style] ELSE exStyle
        /\ calls' = Append(calls, Call("SetWindowLongPtrW", w, "GWL_EXSTYLE", ex_style,
                                       IF ok THEN <<"ok">> ELSE <<"failed">>))
        /\ Finish(IF ok THEN Ok ELSE Err(<<"Failed to set window style">>))
        /\ UNCHANGED <<excludedFromPeek, cloak, sharingType, activationPolicy, envVars,
                       histVars, cur, ex_style, pre, repeat>>

\* SetWindowLongPtrW(hwnd, GWL_EXSTYLE, ex_style); Ok(())
SetWindowLongPtrW ==
    LET w == cur.window
        ok == status[w] = "live"
    IN  /\ exStyle' = IF ok THEN [exStyle EXCEPT ![w] = ex_style] ELSE exStyle
        /\ calls' = Append(calls, Call("SetWindowLongPtrW", w, "GWL_EXSTYLE", ex_style,
                                       IF ok THEN <<"ok">> ELSE <<"failed">>))
        /\ Finish(Ok)
        /\ UNCHANGED <<excludedFromPeek, cloak, sharingType, activationPolicy, envVars,
                       histVars, cur, ex_style, pre, repeat>>

\* Variant of hide_from_taskbar_style: the app-window bit is not cleared.
hide_from_taskbar_style_only_sets(ex) == BitOr(ex, WS_EX_TOOLWINDOW)

\* ex_style &= !(WS_EX_APPWINDOW.0 as isize); ex_style |= WS_EX_TOOLWINDOW.0 as isize;
hide_from_taskbar_style(ex) == BitOr(BitAnd(ex, BitNot(WS_EX_APPWINDOW)), WS_EX_TOOLWINDOW)

\* Variant of show_in_taskbar_style: the mask is assigned instead of or-ed.
show_in_taskbar_style_assigns(ex) == WS_EX_APPWINDOW

\* Variant of show_in_taskbar_style: the tool-window bit is not cleared.
show_in_taskbar_style_only_sets(ex) == BitOr(ex, WS_EX_APPWINDOW)

\* ex_style |= WS_EX_APPWINDOW.0 as isize; ex_style &= !(WS_EX_TOOLWINDOW.0 as isize);
show_in_taskbar_style(ex) == BitAnd(BitOr(ex, WS_EX_APPWINDOW), BitNot(WS_EX_TOOLWINDOW))

\* The two compound assignments to the local between the read and the write-back.
ModifyLocal(newStyle, nextPc) ==
    /\ ex_style' = newStyle
    /\ pc' = nextPc
    /\ UNCHANGED <<winVars, envVars, histVars, cur, calls, result, pre, repeat>>

hide_from_taskbar_get ==
    /\ pc = "hide_from_taskbar"
    /\ GetWindowLongPtrW("hide_from_taskbar_modify")

hide_from_taskbar_modify ==
    /\ pc = "hide_from_taskbar_modify"
    /\ ModifyLocal(hide_from_taskbar_style(ex_style), "hide_from_taskbar_set")

hide_from_taskbar_set ==
    /\ pc = "hide_from_taskbar_set"
    /\ SetWindowLongPtrW

show_in_taskbar_get ==
    /\ pc = "show_in_taskbar"
    /\ GetWindowLongPtrW("show_in_taskbar_modify")

show_in_taskbar_modify ==
    /\ pc = "show_in_taskbar_modify"
    /\ ModifyLocal(show_in_taskbar_style(ex_style), "show_in_taskbar_set")

show_in_taskbar_set ==
    /\ pc = "show_in_taskbar_set"
    /\ SetWindowLongPtrW

(***************************************************************************)
(* macos_impl                                                              *)
(***************************************************************************)
\* msg_send![ns_window, setSharingType: t]
SetSharingType(t) ==
    LET w == cur.window IN
    /\ sharingType' = [sharingType EXCEPT ![w] = t]
    /\ calls' = Append(calls, Call("setSharingType", w, "sharingType", t, <<"ok">>))
    /\ Finish(Ok)
    /\ UNCHANGED <<excludedFromPeek, cloak, exStyle, activationPolicy, envVars, histVars,
                   cur, ex_style, pre, repeat>>

macos_hide_from_capture ==
    /\ pc = "macos_hide_from_capture"
    /\ SetSharingType(NSWindowSharingNone)

\* Variant of macos_show_in_capture: full (read-write) sharing on disable.
macos_show_in_capture_full ==
    /\ pc = "macos_show_in_capture"
    /\ SetSharingType(NSWindowSharingReadWrite)

macos_show_in_capture ==
    /\ pc = "macos_show_in_capture"
    /\ SetSharingType(NSWindowSharingReadOnly)

\* msg_send![ns_app, setActivationPolicy: p]
SetActivationPolicy(p) ==
    /\ activationPolicy' = p
    /\ calls' = Append(calls, Call("setActivationPolicy", "NSApp", "activationPolicy", p,
                                   <<"ok">>))
    /\ Finish(Ok)
    /\ UNCHANGED <<excludedFromPeek, cloak, exStyle, sharingType, envVars, histVars,
                   cur, ex_style, pre, repeat>>

hide_from_dock ==
    /\ pc = "hide_from_dock"
    /\ SetActivationPolicy(NSApplicationActivationPolicyAccessory)

show_in_dock ==
    /\ pc = "show_in_dock"
    /\ SetActivationPolicy(NSApplicationActivationPolicyRegular)

(***************************************************************************)
(* The commands' platform blocks                                           *)
(***************************************************************************)
Dispatching(cmd, os) ==
    /\ pc = "dispatch"
    /\ cur.cmd = cmd
    /\ platform = os

\* #[cfg(target_os = "windows")] block of set_screen_capture_protection
capture_windows ==
    /\ Dispatching("set_screen_capture_protection", "windows")
    /\ ResolveHandle("hwnd", IF cur.arg THEN "hide_from_capture" ELSE "show_in_capture")
    /\ UNCHANGED <<winVars, envVars, histVars, cur, ex_style, pre, repeat>>

\* #[cfg(target_os = "macos")] block of set_screen_capture_protection
capture_macos ==
    /\ Dispatching("set_screen_capture_protection", "macos")
    /\ ResolveHandle("ns_window",
                     IF cur.arg THEN "macos_hide_from_capture" ELSE "macos_show_in_capture")
    /\ UNCHANGED <<winVars, envVars, histVars, cur, ex_style, pre, repeat>>

\* #[cfg(not(any(windows, macos)))] block of set_screen_capture_protection
capture_unsupported ==
    /\ Dispatching("set_screen_capture_protection", "other")
    /\ Finish(Err(<<"Screen capture protection is ", "not supported", " on this platform">>))
    /\ UNCHANGED <<winVars, envVars, histVars, cur, ex_style, calls, pre, repeat>>

\* #[cfg(target_os = "windows")] block of set_taskbar_visibility
taskbar_windows ==
    /\ Dispatching("set_taskbar_visibility", "windows")
    /\ ResolveHandle("hwnd", IF cur.arg THEN "show_in_taskbar" ELSE "hide_from_taskbar")
    /\ UNCHANGED <<winVars, envVars, histVars, cur, ex_style, pre, repeat>>

\* Variant of taskbar_macos: the window's handle is resolved first, as for capture.
taskbar_macos_resolves ==
    /\ Dispatching("set_taskbar_visibility", "macos")
    /\ ResolveHandle("ns_window", IF cur.arg THEN "show_in_dock" ELSE "hide_from_dock")
    /\ UNCHANGED <<winVars, envVars, histVars, cur, ex_style, pre, repeat>>

\* #[cfg(target_os = "macos")] block of set_taskbar_visibility: NSApp(), no window handle
taskbar_macos ==
    /\ Dispatching("set_taskbar_visibility", "macos")
    /\ calls' = Append(calls, Call("NSApp", "NSApp", "", 0, <<"ok">>))
    /\ pc' = IF cur.arg THEN "show_in_dock" ELSE "hide_from_dock"
    /\ UNCHANGED <<winVars, envVars, histVars, cur, ex_style, result, pre, repeat>>

\* Variant of taskbar_unsupported: the command reports success.
taskbar_unsupported_ok ==
    /\ Dispatching("set_taskbar_visibility", "other")
    /\ Finish(Ok)
    /\ UNCHANGED <<winVars, envVars, histVars, cur, ex_style, calls, pre, repeat>>

\* #[cfg(not(any(windows, macos)))] block of set_taskbar_visibility
taskbar_unsupported ==
    /\ Dispatching("set_taskbar_visibility", "other")
    /\ Finish(Err(<<"Taskbar visibility control is ", "not supported", " on this platform">>))
    /\ UNCHANGED <<winVars, envVars, histVars, cur, ex_style, calls, pre, repeat>>

(***************************************************************************)
(* The windowing system, between commands                                  *)
(***************************************************************************)
\* The native window is destroyed while tauri still hands out its HWND.
DestroyWindow(w) ==
    /\ pc = "idle"
    /\ platform = "windows"
    /\ status[w] = "live"
    /\ status' = [status EXCEPT ![w] = "stale"]
    /\ UNCHANGED <<platform, cloakSupported, winVars, histVars, pc, cur, ex_style, calls,
                   result, pre, repeat>>

\* tauri drops the window: handle resolution fails from now on.
CloseWindow(w) ==
    /\ pc = "idle"
    /\ status[w] # "closed"
    /\ status' = [status EXCEPT ![w] = "closed"]
    /\ UNCHANGED <<platform, cloakSupported, winVars, histVars, pc, cur, ex_style, calls,
                   result, pre, repeat>>

Next ==
    \/ \E cmd \in Commands, w \in Windows, arg \in BOOLEAN : Invoke(cmd, w, arg)
    \/ capture_windows
    \/ hide_from_capture_excluded
    \/ hide_from_capture_cloak
    \/ show_in_capture_excluded
    \/ show_in_capture_cloak
    \/ capture_macos
    \/ macos_hide_from_capture
    \/ macos_show_in_capture
    \/ capture_unsupported
    \/ taskbar_windows
    \/ hide_from_taskbar_get
    \/ hide_from_taskbar_modify
    \/ hide_from_taskbar_set
    \/ show_in_taskbar_get
    \/ show_in_taskbar_modify
    \/ show_in_taskbar_set
    \/ taskbar_macos
    \/ hide_from_dock
    \/ show_in_dock
    \/ taskbar_unsupported
    \/ Return
    \/ \E w \in Windows : DestroyWindow(w)
    \/ \E w \in Windows : CloseWindow(w)

Spec == Init /\ [][Next]_vars

(***************************************************************************)
(* Vocabulary of the properties                                            *)
(***************************************************************************)
Running == pc # "idle"
Done == pc = "done"
IsCapture == cur.cmd = "set_screen_capture_protection"
IsTaskbar == cur.cmd = "set_taskbar_visibility"
Bit01(b) == IF b THEN 1 ELSE 0
Succeeded(c) == c.outcome = <<"ok">>
HandleResolved == calls # <<>> /\ Succeeded(calls[1])

IsExcludedCall(c) == c.api = "DwmSetWindowAttribute" /\ c.attr = "DWMWA_EXCLUDED_FROM_PEEK"
IsCloakCall(c) == c.api = "DwmSetWindowAttribute" /\ c.attr = "DWMWA_CLOAK"
IsDwmCall(c) == c.api = "DwmSetWindowAttribute"
IsStyleRead(c) == c.api = "GetWindowLongPtrW"
IsStyleWrite(c) == c.api = "SetWindowLongPtrW"
IsSharingCall(c) == c.api = "setSharingType"

\* Positions in `calls` of the native calls of each kind.
ExcludedCalls == { i \in DOMAIN calls : IsExcludedCall(calls[i]) }
CloakCalls == { i \in DOMAIN calls : IsCloakCall(calls[i]) }
DwmCalls == { i \in DOMAIN calls : IsDwmCall(calls[i]) }
StyleReads == { i \in DOMAIN calls : IsStyleRead(calls[i]) }
StyleWrites == { i \in DOMAIN calls : IsStyleWrite(calls[i]) }
SharingCalls == { i \in DOMAIN calls : IsSharingCall(calls[i]) }

TaskbarBits == WS_EX_APPWINDOW + WS_EX_TOOLWINDOW
AppBit(m) == HasBit(m, WS_EX_APPWINDOW)
ToolBit(m) == HasBit(m, WS_EX_TOOLWINDOW)

(***************************************************************************)
(* C1                                                                      *)
(***************************************************************************)
\* C1: on windows, set_screen_capture_protection(enabled) issues the
\* DWMWA_EXCLUDED_FROM_PEEK call (value 1 when enabled, 0 when disabled) before
\* the DWMWA_CLOAK call, and whenever the excluded-from-peek call succeeds the
\* command issues the cloak call with the same value and returns Ok, whatever
\* the cloak call's outcome.
C1_LoadBearingFirst ==
    (platform = "windows" /\ IsCapture) =>
        /\ \A j \in CloakCalls :
              /\ calls[j].value = Bit01(cur.arg)
              /\ \E i \in ExcludedCalls : i < j
        /\ \A i \in ExcludedCalls : calls[i].value = Bit01(cur.arg)
        /\ (Done /\ HandleResolved) => ExcludedCalls # {}
        /\ (Done /\ \E i \in ExcludedCalls : Succeeded(calls[i])) =>
              /\ result = Ok
              /\ CloakCalls # {}

C1_Witness ==
    /\ platform = "windows" /\ IsCapture /\ Done
    /\ \E i \in ExcludedCalls : Succeeded(calls[i])
    /\ \E j \in CloakCalls : ~Succeeded(calls[j])
    /\ result = Ok

(***************************************************************************)
(* C2                                                                      *)
(***************************************************************************)
\* C2: on windows, when the DWMWA_EXCLUDED_FROM_PEEK call fails with OS error
\* text X, the command returns Err with a string containing X, makes no cloak
\* call and no second attempt, and leaves both attributes of every window as
\* they were when the command was invoked.
C2_LoadBearingFailure ==
    (platform = "windows" /\ IsCapture) =>
        \A i \in ExcludedCalls :
            ~Succeeded(calls[i]) =>
                /\ Done
                /\ ~result.ok
                /\ Contains(result.err, calls[i].outcome)
                /\ DwmCalls = {i}
                /\ excludedFromPeek = pre.excludedFromPeek
                /\ cloak = pre.cloak

C2_Witness ==
    /\ platform = "windows" /\ IsCapture /\ Done /\ cur.arg
    /\ \E i \in ExcludedCalls :
          /\ calls[i].outcome \in OsErrors
          /\ Contains(result.err, calls[i].outcome)

(***************************************************************************)
(* C3                                                                      *)
(***************************************************************************)
\* C3 as stated: on windows, at every point of a set_taskbar_visibility call
\* the app-window bit of the style mask differs from its value before the call
\* exactly when the tool-window bit does.
C3_Original ==
    (platform = "windows" /\ IsTaskbar /\ Running) =>
        LET m == exStyle[cur.window]
            m0 == pre.exStyle[cur.window]
        IN  (AppBit(m) # AppBit(m0)) <=> (ToolBit(m) # ToolBit(m0))

\* C3 as amended: on windows, a set_taskbar_visibility(visible) call writes the
\* style mask at most once, and at every point of the call the mask is either
\* the mask before the call or a mask in which both bits hold their requested
\* values (app-window set iff visible, tool-window set iff not visible).
C3_BothBitsInOneWrite ==
    (platform = "windows" /\ IsTaskbar /\ Running) =>
        LET m == exStyle[cur.window]
            m0 == pre.exStyle[cur.window]
        IN  /\ Cardinality(StyleWrites) <= 1
            /\ \/ m = m0
               \/ /\ AppBit(m) = cur.arg
                  /\ ToolBit(m) = ~cur.arg
            /\ (StyleWrites = {}) => m = m0

C3_Witness ==
    /\ platform = "windows" /\ IsTaskbar /\ Done
    /\ AppBit(pre.exStyle[cur.window]) /\ ~ToolBit(pre.exStyle[cur.window])
    /\ ~AppBit(exStyle[cur.window]) /\ ToolBit(exStyle[cur.window])

(***************************************************************************)
(* C4                                                                      *)
(***************************************************************************)
\* C4: on windows, at every point of a set_taskbar_visibility call every bit of
\* the target window's style mask other than the app-window and tool-window
\* bits equals its value before the call, and the excluded-from-peek and cloak
\* attributes are unchanged.
C4_OtherBitsPreserved ==
    (platform = "windows" /\ IsTaskbar /\ Running) =>
        /\ BitAnd(exStyle[cur.window], BitNot(TaskbarBits))
              = BitAnd(pre.exStyle[cur.window], BitNot(TaskbarBits))
        /\ excludedFromPeek = pre.excludedFromPeek
        /\ cloak = pre.cloak

C4_Witness ==
    /\ platform = "windows" /\ IsTaskbar /\ Done
    /\ exStyle[cur.window] # pre.exStyle[cur.window]
    /\ BitAnd(exStyle[cur.window], BitNot(TaskbarBits)) = OtherMask
    /\ excludedFromPeek[cur.window] = 1

(***************************************************************************)
(* C5                                                                      *)
(***************************************************************************)
ProtectionState(excl, clk, shr, w) ==
    IF platform = "windows" THEN <<excl[w], clk[w]>> ELSE <<shr[w]>>

\* C5: when set_screen_capture_protection is called on a window with the same
\* `enabled` as the command completed just before it, the window's protection
\* state after the second call (windows: excluded-from-peek and cloak; macos:
\* sharing type) equals the state the first call left.
C5_CaptureIdempotent ==
    (IsCapture /\ Done /\ repeat) =>
        ProtectionState(excludedFromPeek, cloak, sharingType, cur.window)
          = ProtectionState(pre.excludedFromPeek, pre.cloak, pre.sharingType, cur.window)

C5_Witness ==
    /\ platform = "windows" /\ IsCapture /\ Done /\ repeat /\ cur.arg
    /\ result = Ok
    /\ excludedFromPeek[cur.window] = 1
    /\ cloak[cur.window] = 1

(***************************************************************************)
(* C6                                                                      *)
(***************************************************************************)
\* C6: on macos, set_screen_capture_protection(enabled) passes to
\* setSharingType the value none when enabled and read-only when not, never
\* read-write, and once the command has returned Ok the window's sharing type
\* is that value.
C6_SharingType ==
    (platform = "macos" /\ IsCapture) =>
        LET want == IF cur.arg THEN NSWindowSharingNone ELSE NSWindowSharingReadOnly IN
        /\ \A i \in SharingCalls :
              /\ calls[i].value = want
              /\ calls[i].value # NSWindowSharingReadWrite
        /\ (Done /\ result = Ok) =>
              /\ SharingCalls # {}
              /\ sharingType[cur.window] = want

C6_Witness ==
    /\ platform = "macos" /\ IsCapture /\ Done /\ ~cur.arg
    /\ pre.sharingType[cur.window] = NSWindowSharingNone
    /\ sharingType[cur.window] = NSWindowSharingReadOnly

(***************************************************************************)
(* C7                                                                      *)
(***************************************************************************)
\* C7: on a platform that is neither windows nor macos, both commands return
\* an Err whose text says the feature is not supported on this platform, in
\* one step, with no handle resolved, no native call made and no window state
\* changed.
C7_Unsupported ==
    (platform = "other" /\ Running) =>
        /\ calls = <<>>
        /\ pc \in {"dispatch", "done"}
        /\ <<excludedFromPeek, cloak, exStyle, sharingType, activationPolicy>>
             = <<pre.excludedFromPeek, pre.cloak, pre.exStyle, pre.sharingType,
                 pre.activationPolicy>>
        /\ Done =>
              /\ ~result.ok
              /\ Contains(result.err, <<"not supported", " on this platform">>)

C7_Witness ==
    /\ platform = "other" /\ Done /\ IsTaskbar
    /\ last.cmd = "set_screen_capture_protection"
    /\ ~result.ok

(***************************************************************************)
(* C8                                                                      *)
(***************************************************************************)
\* C8: on windows, once window.hwnd() has succeeded, set_taskbar_visibility
\* returns Ok, also when GetWindowLongPtrW or SetWindowLongPtrW fails.
C8_TaskbarAlwaysOk ==
    (platform = "windows" /\ IsTaskbar /\ Done /\ HandleResolved) => result = Ok

C8_Witness ==
    /\ platform = "windows" /\ IsTaskbar /\ Done /\ HandleResolved
    /\ \E i \in StyleReads : ~Succeeded(calls[i])
    /\ \E i \in StyleWrites : ~Succeeded(calls[i])
    /\ result = Ok

(***************************************************************************)
(* C9                                                                      *)
(***************************************************************************)
PolicyFor(visible) ==
    IF visible THEN NSApplicationActivationPolicyRegular
    ELSE NSApplicationActivationPolicyAccessory

\* C9: on macos, set_taskbar_visibility never touches the window it is invoked
\* with (its only native calls go to NSApp) and always returns Ok, and the
\* activation policy is regular or accessory according to `visible` of the
\* most recent set_taskbar_visibility call that has run, whichever window
\* that call was made through.
C9_ProcessGlobalPolicy ==
    (platform = "macos") =>
        /\ IsTaskbar => \A i \in DOMAIN calls : calls[i].window = "NSApp"
        /\ (IsTaskbar /\ Done) =>
              /\ result = Ok
              /\ activationPolicy = PolicyFor(cur.arg)
        /\ (~(IsTaskbar /\ Done) /\ lastVisible # "none") =>
              activationPolicy = PolicyFor(lastVisible = "shown")

C9_Witness ==
    /\ platform = "macos" /\ IsTaskbar /\ Done
    /\ status[cur.window] = "closed"
    /\ last.cmd = "set_taskbar_visibility" /\ last.window # cur.window
    /\ lastVisible = "shown" /\ ~cur.arg
    /\ activationPolicy = NSApplicationActivationPolicyAccessory

(***************************************************************************)
(* C10                                                                     *)
(***************************************************************************)
\* C10: on windows, after a set_taskbar_visibility(visible) call whose native
\* read and write succeeded, the app-window bit is set iff visible and the
\* tool-window bit is set iff not visible, from any mask before the call; and
\* a call that repeats the previous command leaves the mask unchanged.
C10_ExactlyOneBit ==
    (platform = "windows" /\ IsTaskbar /\ Done) =>
        LET m == exStyle[cur.window] IN
        /\ ( /\ \E i \in StyleReads : Succeeded(calls[i])
             /\ \E i \in StyleWrites : Succeeded(calls[i]) ) =>
              /\ AppBit(m) = cur.arg
              /\ ToolBit(m) = ~cur.arg
        /\ repeat => m = pre.exStyle[cur.window]

C10_Witness ==
    /\ platform = "windows" /\ IsTaskbar /\ Done /\ cur.arg
    /\ AppBit(pre.exStyle[cur.window]) /\ ToolBit(pre.exStyle[cur.window])
    /\ \E i \in StyleWrites : Succeeded(calls[i])
    /\ AppBit(exStyle[cur.window]) /\ ~ToolBit(exStyle[cur.window])

====
